---------------------------- MODULE Spec2Model ----------------------------
(***************************************************************************)
(* GameEngine of sc2reader/engine/engine.py: the plugin registry, handler  *)
(* resolution and the run loop over the self-extending event queue.        *)
(*                                                                         *)
(* A plugin object is a string; a handler (a bound method                  *)
(* plugin.handle<Name>) is the pair <<plugin, Name>>; an event is a record *)
(* carrying its name and, as bookkeeping, a serial number and the event    *)
(* and plugin that produced it.                                            *)
(***************************************************************************)
EXTENDS Integers, Sequences, FiniteSets, TLC

VARIABLES
    self_plugins,    \* GameEngine._plugins, the registry
    pc,              \* "idle", "loop" (while test), "for" (handler loop), "done", "fatal"
    runs,            \* number of run() calls started so far
    replay_events,   \* replay.events of the run in progress
    replay_plugins,  \* replay.plugins, the outcome mapping
    handlers,        \* run's local handlers: event.name -> handler list
    plugins,         \* run's local list of active plugins
    event_queue,     \* run's local deque
    event,           \* the event popped last
    event_handlers,  \* handler list of the event popped last
    hi,              \* index in event_handlers of the handler to invoke next
    new_events,      \* events collected from the handlers invoked so far
    next_id,         \* serial number of the next event object created
    processed,       \* history: the events popped in this run, in order
    log,             \* history: the handler invocations of this run, in order,
                     \* each with the event and its position in processed
    hist             \* history: the registry when this run started, and what
                     \* the previous run removed and recorded

vars == <<self_plugins, pc, runs, replay_events, replay_plugins, handlers,
          plugins, event_queue, event, event_handlers, hi, new_events,
          next_id, processed, log, hist>>

----------------------------------------------------------------------------
(* Bounds of the model *)

MaxPlugins == 2     \* registrations per engine
MaxEvents == 2      \* length of replay.events
MaxInject == 2      \* events produced by handlers in one run
MaxRuns == 2        \* run() calls per engine

----------------------------------------------------------------------------
(* Plugins, events and the event hierarchy *)

AllPlugins == {"P1", "P2", "P3"}

NoPlugin == "none"

\* plugin.name, the key of replay.plugins
PluginName(plugin) ==
    CASE plugin = "P1" -> "Alpha"
      [] plugin = "P2" -> "Beta"
      [] plugin = "P3" -> "Gamma"

\* the handle<Name> methods each plugin class defines
Exposes(plugin) ==
    CASE plugin = "P1" -> {"Event", "TargetAbilityEvent", "InitGame",
                           "TestEvent", "EndGame", "PluginExit"}
      [] plugin = "P2" -> {"GameEvent", "MessageEvent", "ChatEvent", "TestEvent"}
      [] plugin = "P3" -> {"Event", "TrackerEvent", "PlayerActionEvent",
                           "AbilityEvent", "HotkeyEvent", "UnitBornEvent",
                           "TargetAbilityEvent", "InitGame"}

\* the handlers written as generators (the others return None)
Generators(plugin) ==
    CASE plugin = "P1" -> {"Event", "InitGame", "EndGame"}
      [] plugin = "P2" -> {"GameEvent", "TestEvent"}
      [] plugin = "P3" -> {}

\* the classes of sc2reader.events an event of each name is an instance of
ClassesOf(name) ==
    CASE name = "TargetAbilityEvent" ->
             {"Event", "GameEvent", "PlayerActionEvent", "AbilityEvent"}
      [] name = "SetToHotkeyEvent" ->
             {"Event", "GameEvent", "PlayerActionEvent", "HotkeyEvent"}
      [] name = "ChatEvent" -> {"Event", "MessageEvent"}
      [] name = "UnitBornEvent" -> {"Event", "TrackerEvent"}
      [] name = "TestEvent" -> {}
      [] name = "InitGame" -> {}
      [] name = "EndGame" -> {}
      [] name = "PluginExit" -> {}

\* isinstance(event, cls)
IsInstance(ev, cls) == cls \in ClassesOf(ev.name)

EmptyMap == [n \in {} |-> <<>>]

NoDetails == {}

\* an event object. Bookkeeping: id, its serial number; by and hp, the event
\* being handled and the plugin whose handler produced it (0 and NoPlugin for
\* the events run() enqueues itself); anc, the serial numbers of the events
\* it descends from (by, what by descends from, ...)
Ev(name, id, by, hp, anc) ==
    [name |-> name, id |-> id, by |-> by, hp |-> hp, anc |-> anc,
     plugin |-> NoPlugin, code |-> 0, details |-> NoDetails]

\* PluginExit(plugin, code, details)
PluginExit(plugin, code, details, id, by, hp, anc) ==
    [name |-> "PluginExit", id |-> id, by |-> by, hp |-> hp, anc |-> anc,
     plugin |-> plugin, code |-> code, details |-> details]

NoEvent == Ev("none", 0, 0, NoPlugin, {})

InitGameEvent(id) == Ev("InitGame", id, 0, NoPlugin, {})

EndGameEvent(id) == Ev("EndGame", id, 0, NoPlugin, {})


----------------------------------------------------------------------------
(* Sequence helpers *)

Range(s) == {s[i] : i \in 1..Len(s)}

\* list.count
Count(s, x) == Cardinality({i \in 1..Len(s) : s[i] = x})

\* sequences over S of length at most n
SeqsUpTo(S, n) == UNION {[1..k -> S] : k \in 0..n}

\* index of the first occurrence of x in s (x occurs in s)
IndexOf(s, x) == CHOOSE i \in 1..Len(s) : s[i] = x /\ \A j \in 1..(i - 1) : s[j] # x

\* list.remove(x) where it does not raise: drops the first occurrence
ListRemove(s, x) ==
    IF x \in Range(s)
    THEN LET k == IndexOf(s, x)
         IN  SubSeq(s, 1, k - 1) \o SubSeq(s, k + 1, Len(s))
    ELSE s

\* faulty variant of CanRemove: a missing plugin is ignored
AlwaysCanRemove(s, x) == TRUE

\* list.remove(x) returns; it raises ValueError when x is not in the list
CanRemove(s, x) == x \in Range(s)

\* deque.extendleft(xs): a series of appendlefts
RECURSIVE ExtendLeft(_, _)
ExtendLeft(q, xs) ==
    IF xs = <<>> THEN q ELSE ExtendLeft(<<Head(xs)>> \o q, Tail(xs))

\* dict[key] = value
MapSet(m, key, value) ==
    [k \in DOMAIN m \cup {key} |-> IF k = key THEN value ELSE m[k]]

----------------------------------------------------------------------------
(* Handler resolution *)

\* hasattr(plugin, 'handle' + name)
HasEventHandler(plugin, name) == name \in Exposes(plugin)

\* getattr(plugin, 'handle' + name)
GetEventHandler(plugin, name) == <<plugin, name>>

\* one of the seven isinstance tests of _get_plugin_event_handlers
ClassHandler(plugin, ev, cls) ==
    IF IsInstance(ev, cls) /\ HasEventHandler(plugin, cls)
    THEN <<GetEventHandler(plugin, cls)>>
    ELSE <<>>

\* the closing test of _get_plugin_event_handlers, on the event's own name
OwnHandler(plugin, ev) ==
    IF HasEventHandler(plugin, ev.name)
    THEN <<GetEventHandler(plugin, ev.name)>>
    ELSE <<>>

\* faulty variant of GetPluginEventHandlers: the handler for the event's own name
\* is looked up first
OwnHandlerFirst(plugin, ev) ==
    OwnHandler(plugin, ev)
    \o ClassHandler(plugin, ev, "Event")
    \o ClassHandler(plugin, ev, "MessageEvent")
    \o ClassHandler(plugin, ev, "GameEvent")
    \o ClassHandler(plugin, ev, "TrackerEvent")
    \o ClassHandler(plugin, ev, "PlayerActionEvent")
    \o ClassHandler(plugin, ev, "AbilityEvent")
    \o ClassHandler(plugin, ev, "HotkeyEvent")

GetPluginEventHandlers(plugin, ev) ==
    ClassHandler(plugin, ev, "Event")
    \o ClassHandler(plugin, ev, "MessageEvent")
    \o ClassHandler(plugin, ev, "GameEvent")
    \o ClassHandler(plugin, ev, "TrackerEvent")
    \o ClassHandler(plugin, ev, "PlayerActionEvent")
    \o ClassHandler(plugin, ev, "AbilityEvent")
    \o ClassHandler(plugin, ev, "HotkeyEvent")
    \o OwnHandler(plugin, ev)

\* sum([... for plugin in plugins], [])
RECURSIVE GetEventHandlers(_, _)

\* faulty variant of GetEventHandlers: the plugins are visited last to first
RECURSIVE LastPluginFirst(_, _)
LastPluginFirst(ev, ps) ==
    IF ps = <<>> THEN <<>>
    ELSE LastPluginFirst(ev, Tail(ps)) \o GetPluginEventHandlers(Head(ps), ev)

GetEventHandlers(ev, ps) ==
    IF ps = <<>> THEN <<>>
    ELSE GetPluginEventHandlers(Head(ps), ev) \o GetEventHandlers(ev, Tail(ps))

----------------------------------------------------------------------------
(* What a replay holds and what a handler may produce *)

\* the plugins and replay.events names of the runs with yielding handlers
CorePlugins == {"P1", "P2"}

InputNames == {"TargetAbilityEvent"}

\* the replay.events names of the runs that exercise the whole hierarchy
WideNames == {"TargetAbilityEvent", "SetToHotkeyEvent", "ChatEvent", "UnitBornEvent"}

\* names of the plain events a handler yields
YieldNames == {"TestEvent"}

\* (code, details) of the PluginExit events the handlers of each plugin yield
ExitOutcome(plugin) ==
    CASE plugin = "P1" -> <<0, {"msg"}>>
      [] plugin = "P2" -> <<1, NoDetails>>
      [] plugin = "P3" -> <<2, {"msg"}>>

\* what one yield statement produces, before it is made an event object
ExitItems == {[name |-> "PluginExit", plugin |-> p] : p \in CorePlugins}

YieldItems == {[name |-> n, plugin |-> NoPlugin] : n \in YieldNames} \cup ExitItems

\* the event objects that a handler of plugin hp yields while event ev is
\* handled: item i gets serial number first + i - 1
MakeEvents(items, first, ev, hp) ==
    [i \in 1..Len(items) |->
        IF items[i].name = "PluginExit"
        THEN PluginExit(items[i].plugin, ExitOutcome(hp)[1], ExitOutcome(hp)[2],
                        first + i - 1, ev.id, hp, ev.anc \cup {ev.id})
        ELSE Ev(items[i].name, first + i - 1, ev.id, hp, ev.anc \cup {ev.id})]

\* serial numbers: InitGame is 1, replay.events are 2..n+1, EndGame is n+2
FirstYieldId(evs) == Len(evs) + 3

\* events produced by handlers so far in this run
Injected == next_id - FirstYieldId(replay_events)

----------------------------------------------------------------------------
(* The engine *)

Init ==
    /\ self_plugins = <<>>
    /\ pc = "idle"
    /\ runs = 0
    /\ replay_events = <<>>
    /\ replay_plugins = EmptyMap
    /\ handlers = EmptyMap
    /\ plugins = <<>>
    /\ event_queue = <<>>
    /\ event = NoEvent
    /\ event_handlers = <<>>
    /\ hi = 0
    /\ new_events = <<>>
    /\ next_id = FirstYieldId(<<>>)
    /\ processed = <<>>
    /\ log = <<>>
    /\ hist = [registry |-> <<>>, removed |-> {}, outcomes |-> EmptyMap]

NotRunning == pc \in {"idle", "done", "fatal"}

NeverRun == pc = "idle"

run_locals == <<replay_events, replay_plugins, handlers, plugins, event_queue,
                event, event_handlers, hi, new_events, next_id, processed, log,
                hist>>

\* register_plugin(plugin)
RegisterPlugin(plugin) ==
    /\ NotRunning
    /\ Len(self_plugins) < MaxPlugins
    /\ self_plugins' = Append(self_plugins, plugin)
    /\ UNCHANGED <<pc, runs, run_locals>>

\* register_plugins(*ps), also GameEngine(plugins=ps)
RegisterPlugins(ps) ==
    /\ NotRunning
    /\ Len(self_plugins) + Len(ps) <= MaxPlugins
    /\ self_plugins' = self_plugins \o ps
    /\ UNCHANGED <<pc, runs, run_locals>>

\* plugins = list(self._plugins)
CopyPlugins(registry) == registry

\* replay.plugins = dict()
NewOutcomes(old) == EmptyMap

\* handlers = dict()
NewHandlers(old) == EmptyMap

\* faulty variant of InitialQueue: EndGame is appended before replay.events
EndBeforeEvents(evs) ==
    <<InitGameEvent(1), EndGameEvent(Len(evs) + 2)>>
    \o [i \in 1..Len(evs) |-> Ev(evs[i], i + 1, 0, NoPlugin, {})]

\* the deque of lines 130-133
InitialQueue(evs) ==
    <<InitGameEvent(1)>>
    \o [i \in 1..Len(evs) |-> Ev(evs[i], i + 1, 0, NoPlugin, {})]
    \o <<EndGameEvent(Len(evs) + 2)>>

\* plugins whose PluginExit was carried out in the run that just ended
RemovedInRun ==
    {processed[i].ev.plugin : i \in
        {j \in 1..Len(processed) :
            /\ processed[j].ev.name = "PluginExit"
            /\ ~(j = Len(processed) /\ pc = "fatal" /\ event.name = "PluginExit")}}

\* run(replay), lines 117-133
Run(evs) ==
    /\ NotRunning
    /\ runs' = runs + 1
    /\ pc' = "loop"
    /\ handlers' = NewHandlers(handlers)
    /\ plugins' = CopyPlugins(self_plugins)
    /\ replay_plugins' = NewOutcomes(replay_plugins)
    /\ replay_events' = evs
    /\ event_queue' = InitialQueue(evs)
    /\ event' = NoEvent
    /\ event_handlers' = <<>>
    /\ hi' = 0
    /\ new_events' = <<>>
    /\ next_id' = FirstYieldId(evs)
    /\ processed' = <<>>
    /\ log' = <<>>
    /\ hist' = [registry |-> self_plugins, removed |-> RemovedInRun,
                outcomes |-> replay_plugins]
    /\ UNCHANGED self_plugins

\* event = event_queue.popleft(), with the history of what was popped
Pop ==
    /\ pc = "loop"
    /\ event_queue # <<>>
    /\ event' = Head(event_queue)
    /\ processed' = Append(processed, [ev |-> Head(event_queue), nid |-> next_id])

\* faulty variant of IsPluginExit: PluginExit is not intercepted
NeverPluginExit(ev) == FALSE

\* line 140
IsPluginExit(ev) == ev.name = "PluginExit"

\* faulty variant of RegistryAfterRemove: run works on the registry itself
RegistryRemoved(registry, plugin) == ListRemove(registry, plugin)

\* the registry after line 142 (run works on its own copy)
RegistryAfterRemove(registry, plugin) == registry

\* faulty variant of HandlersAfterExit: the cache is kept when a plugin exits
HandlersKeptAfterExit(cache) == cache

\* the handler cache after line 143
HandlersAfterExit(cache) == EmptyMap

\* faulty variant of ExitingPlugin: the plugin whose handler yielded the event
ProducingPlugin(ev) == ev.hp

\* event.plugin of lines 142 and 144
ExitingPlugin(ev) == ev.plugin

\* lines 140-145, the plugin is active
PopPluginExit ==
    /\ Pop
    /\ IsPluginExit(Head(event_queue))
    /\ CanRemove(plugins, ExitingPlugin(Head(event_queue)))
    /\ event_queue' = Tail(event_queue)
    /\ plugins' = ListRemove(plugins, ExitingPlugin(Head(event_queue)))
    /\ self_plugins' = RegistryAfterRemove(self_plugins, ExitingPlugin(Head(event_queue)))
    /\ handlers' = HandlersAfterExit(handlers)
    /\ replay_plugins' = MapSet(replay_plugins, PluginName(ExitingPlugin(Head(event_queue))),
                                <<Head(event_queue).code, Head(event_queue).details>>)
    /\ UNCHANGED <<pc, runs, replay_events, event_handlers, hi, new_events,
                   next_id, log, hist>>

\* lines 140-142, plugins.remove raises ValueError
PopPluginExitFatal ==
    /\ Pop
    /\ IsPluginExit(Head(event_queue))
    /\ ~CanRemove(plugins, ExitingPlugin(Head(event_queue)))
    /\ event_queue' = Tail(event_queue)
    /\ pc' = "fatal"
    /\ UNCHANGED <<self_plugins, runs, replay_events, replay_plugins, handlers,
                   plugins, event_handlers, hi, new_events, next_id, log, hist>>

\* faulty variant of Resolve: whatever list is cached is used, under any name
ResolveAnyCached(ev, cache, ps) ==
    IF DOMAIN cache # {} THEN cache[CHOOSE n \in DOMAIN cache : TRUE]
    ELSE GetEventHandlers(ev, ps)

\* lines 148-152: the cached list, or a fresh one that is then cached
Resolve(ev, cache, ps) ==
    IF ev.name \in DOMAIN cache THEN cache[ev.name] ELSE GetEventHandlers(ev, ps)

\* faulty variant of Requeue: the produced events take the place of the queue
RequeueReplacing(queue, batch) == IF batch = <<>> THEN queue ELSE batch

\* faulty variant of Requeue: deque.extend, the batch joins the back of the queue
RequeueAtBack(queue, batch) == queue \o batch

\* line 162
Requeue(queue, batch) == ExtendLeft(queue, batch)

\* lines 138-152, and lines 156-162 when there is no handler to call
PopEvent ==
    /\ Pop
    /\ ~IsPluginExit(Head(event_queue))
    /\ LET eh == Resolve(Head(event_queue), handlers, plugins)
       IN  /\ event_handlers' = eh
           /\ handlers' = MapSet(handlers, Head(event_queue).name, eh)
           /\ new_events' = <<>>
           /\ IF eh = <<>>
              THEN /\ pc' = "loop"
                   /\ hi' = 0
                   /\ event_queue' = Requeue(Tail(event_queue), <<>>)
              ELSE /\ pc' = "for"
                   /\ hi' = 1
                   /\ event_queue' = Tail(event_queue)
    /\ UNCHANGED <<self_plugins, runs, replay_events, replay_plugins, plugins,
                   next_id, log, hist>>

\* faulty variant of LoopEnds: the handlers that remain are skipped once a
\* PluginExit has been produced
LoopEndsAtExit(i, eh, batch) ==
    i = Len(eh) \/ \E k \in 1..Len(batch) : batch[k].name = "PluginExit"

\* the for statement of line 156 has no handler left after the i-th
LoopEnds(i, eh, batch) == i = Len(eh)

\* line 158 for one handler that returns: its events join new_events; after
\* the last handler, line 162
Invoke(items) ==
    /\ pc = "for"
    /\ Injected + Len(items) <= MaxInject
    /\ items # <<>> => event_handlers[hi][2] \in Generators(event_handlers[hi][1])
    /\ LET h == event_handlers[hi]
           batch == new_events \o MakeEvents(items, next_id, event, h[1])
       IN  /\ log' = Append(log, [eid |-> event.id, at |-> Len(processed),
                                  plugin |-> h[1], handler |-> h[2]])
           /\ next_id' = next_id + Len(items)
           /\ IF LoopEnds(hi, event_handlers, batch)
              THEN /\ pc' = "loop"
                   /\ hi' = 0
                   /\ new_events' = <<>>
                   /\ event_queue' = Requeue(event_queue, batch)
              ELSE /\ pc' = "for"
                   /\ hi' = hi + 1
                   /\ new_events' = batch
                   /\ event_queue' = event_queue
    /\ UNCHANGED <<self_plugins, runs, replay_events, replay_plugins, handlers,
                   plugins, event, event_handlers, processed, hist>>

\* faulty variant of RecordDefaults: nothing is recorded for the remaining plugins
RecordNothing(outcomes, ps) == outcomes

\* lines 166-167
RECURSIVE RecordDefaults(_, _)
RecordDefaults(outcomes, ps) ==
    IF ps = <<>> THEN outcomes
    ELSE RecordDefaults(MapSet(outcomes, PluginName(Head(ps)), <<0, NoDetails>>), Tail(ps))

\* faulty variant of OutcomesAfterFault: the defaults of lines 166-167 are
\* recorded on the way out, as a finally clause would
DefaultsAfterFault(outcomes, ps) == RecordDefaults(outcomes, ps)

\* replay.plugins when an exception leaves run: lines 164-167 are not reached
OutcomesAfterFault(outcomes, ps) == outcomes

\* line 158 for one handler that raises: run is left with the exception
InvokeFault ==
    /\ pc = "for"
    /\ pc' = "fatal"
    /\ log' = Append(log, [eid |-> event.id, at |-> Len(processed),
                           plugin |-> event_handlers[hi][1],
                           handler |-> event_handlers[hi][2]])
    /\ replay_plugins' = OutcomesAfterFault(replay_plugins, plugins)
    /\ UNCHANGED <<self_plugins, runs, replay_events, handlers, plugins,
                   event_queue, event, event_handlers, hi, new_events, next_id,
                   processed, hist>>

\* faulty variant of Finish: with the queue empty run waits for more events
FinishBlocks ==
    /\ pc = "loop"
    /\ event_queue = <<>>
    /\ UNCHANGED vars

\* the while test fails: lines 164-167
Finish ==
    /\ pc = "loop"
    /\ event_queue = <<>>
    /\ pc' = "done"
    /\ replay_plugins' = RecordDefaults(replay_plugins, plugins)
    /\ UNCHANGED <<self_plugins, runs, replay_events, handlers, plugins,
                   event_queue, event, event_handlers, hi, new_events, next_id,
                   processed, log, hist>>

\* one engine, one run, handlers that yield
Next ==
    \/ \E plugin \in CorePlugins : NeverRun /\ RegisterPlugin(plugin)
    \/ \E ps \in SeqsUpTo(CorePlugins, MaxPlugins) : NeverRun /\ RegisterPlugins(ps)
    \/ \E evs \in SeqsUpTo(InputNames, MaxEvents) : NeverRun /\ Run(evs)
    \/ PopPluginExit
    \/ PopPluginExitFatal
    \/ PopEvent
    \/ \E items \in SeqsUpTo(YieldItems, MaxInject) : Invoke(items)
    \/ Finish

Spec == Init /\ [][Next]_vars

\* what run does next once it has been called: the statements of lines
\* 137-167 follow one another without waiting for anything
RunStep ==
    \/ PopPluginExit
    \/ PopPluginExitFatal
    \/ PopEvent
    \/ \E items \in SeqsUpTo(YieldItems, MaxInject) : Invoke(items)
    \/ Finish

\* Spec with a run that keeps going: a handler that was called returns, and
\* the loop takes its next step
SpecLive == Init /\ [][Next]_vars /\ WF_vars(RunStep)

\* one engine, one run over the whole event hierarchy, handlers that return None
NextWide ==
    \/ \E plugin \in AllPlugins : NeverRun /\ RegisterPlugin(plugin)
    \/ \E ps \in SeqsUpTo(AllPlugins, MaxPlugins) : NeverRun /\ RegisterPlugins(ps)
    \/ \E evs \in SeqsUpTo(WideNames, MaxEvents) : NeverRun /\ Run(evs)
    \/ PopEvent
    \/ Invoke(<<>>)
    \/ Finish

SpecWide == Init /\ [][NextWide]_vars

\* one engine, several runs, handlers that yield a PluginExit or raise
NextRuns ==
    \/ \E plugin \in CorePlugins : RegisterPlugin(plugin)
    \/ \E ps \in SeqsUpTo(CorePlugins, MaxPlugins) : RegisterPlugins(ps)
    \/ \E evs \in SeqsUpTo(InputNames, MaxEvents) : runs < MaxRuns /\ Run(evs)
    \/ PopPluginExit
    \/ PopPluginExitFatal
    \/ PopEvent
    \/ \E items \in SeqsUpTo(ExitItems, 1) : Invoke(items)
    \/ InvokeFault
    \/ Finish

SpecRuns == Init /\ [][NextRuns]_vars

----------------------------------------------------------------------------
(* Reading the history *)

\* every event object created so far in this run
AllEvents ==
    {processed[i].ev : i \in 1..Len(processed)} \cup Range(event_queue)
        \cup Range(new_events)

\* position of the event with serial number id among the popped events, or 0
Pos(id) ==
    IF \E i \in 1..Len(processed) : processed[i].ev.id = id
    THEN CHOOSE i \in 1..Len(processed) : processed[i].ev.id = id
    ELSE 0

\* event d descends from the event with serial number id: it was produced
\* by its handlers, or by the handlers of an event that descends from it
Descends(d, id) == id \in d.anc

\* the event with serial number id was popped before position j
PoppedBefore(id, j) == \E k \in 1..(j - 1) : processed[k].ev.id = id

\* number of PluginExit events naming plugin among the first n popped events
ExitsBefore(plugin, n) ==
    Cardinality({i \in 1..n :
        processed[i].ev.name = "PluginExit" /\ processed[i].ev.plugin = plugin})

\* the same, counting only those a handler of that plugin itself produced
OwnExitsBefore(plugin, n) ==
    Cardinality({i \in 1..n :
        /\ processed[i].ev.name = "PluginExit"
        /\ processed[i].ev.plugin = plugin
        /\ processed[i].ev.hp = plugin})

\* the handler invocations made for the event with serial number id
Seg(id) == SelectSeq(log, LAMBDA l : l.eid = id)

IsPrefix(s, t) == Len(s) <= Len(t) /\ SubSeq(t, 1, Len(s)) = s

\* the seven general handler names, most general first
Precedence ==
    <<"Event", "MessageEvent", "GameEvent", "TrackerEvent", "PlayerActionEvent",
      "AbilityEvent", "HotkeyEvent">>

\* the invocations one registration of plugin owes event ev: the general
\* handlers in Precedence order, then the handler named after the event
ExpectedOf(plugin, ev) ==
    LET general == SelectSeq(Precedence,
                       LAMBDA c : c \in ClassesOf(ev.name) /\ c \in Exposes(plugin))
        names == general \o (IF ev.name \in Exposes(plugin) THEN <<ev.name>> ELSE <<>>)
    IN  [i \in 1..Len(names) |->
            [eid |-> ev.id, at |-> Pos(ev.id), plugin |-> plugin,
             handler |-> names[i]]]

RECURSIVE ExpectedLog(_, _)
ExpectedLog(ps, ev) ==
    IF ps = <<>> THEN <<>> ELSE ExpectedOf(Head(ps), ev) \o ExpectedLog(Tail(ps), ev)

\* the outcome mapping that the PluginExit events among the first n popped
\* events leave behind
RECURSIVE ExitOutcomesUpTo(_)
ExitOutcomesUpTo(n) ==
    IF n = 0 THEN EmptyMap
    ELSE IF processed[n].ev.name = "PluginExit"
         THEN MapSet(ExitOutcomesUpTo(n - 1), PluginName(processed[n].ev.plugin),
                     <<processed[n].ev.code, processed[n].ev.details>>)
         ELSE ExitOutcomesUpTo(n - 1)

\* serial number of the EndGame event run() enqueues
EndId == Len(replay_events) + 2

\* registrations of plugin in the active list when the i-th event is popped
ActiveAt(plugin, i) == Count(hist.registry, plugin) - ExitsBefore(plugin, i - 1)

\* the handlers of the i-th popped event have all been called
Handled(i) == i < Len(processed) \/ pc \in {"loop", "done"}

\* names of the handlers one registration of plugin owes an event
HandlerNames(plugin, ev) ==
    (ClassesOf(ev.name) \cup {ev.name}) \cap Exposes(plugin)

\* number of calls of one handler of plugin for the i-th popped event
Calls(plugin, handler, i) ==
    Cardinality({k \in 1..Len(log) :
        log[k].at = i /\ log[k].plugin = plugin /\ log[k].handler = handler})

----------------------------------------------------------------------------
(* Claims *)

\* C1: the events produced by the handlers of one popped event are popped in
\* the order they were produced (serial numbers follow production order).
C1_ProductionOrder ==
    \A i, j \in 1..Len(processed) :
        (/\ i < j
         /\ processed[i].ev.by # 0
         /\ processed[i].ev.by = processed[j].ev.by)
        => processed[i].ev.id < processed[j].ev.id

\* C2: whatever descends from a popped event e is popped before every event
\* that was waiting in the queue when e was popped.
C2_InjectedBeforeQueued ==
    \A d \in AllEvents : \A i \in 1..Len(processed) :
        Descends(d, processed[i].ev.id)
        => \A j \in (i + 1)..Len(processed) :
               processed[j].ev.id < processed[i].nid => PoppedBefore(d.id, j)

\* C2 witness: an event two generations below e was popped, and later an
\* event that had been waiting when e was popped.
C2_Witness ==
    \E i, k, j \in 1..Len(processed) :
        /\ i < k /\ k < j
        /\ processed[j].ev.id < processed[i].nid
        /\ processed[k].ev.by # processed[i].ev.id
        /\ Descends(processed[k].ev, processed[i].ev.id)

\* C3 as stated: once a handler of plugin p has produced a PluginExit naming
\* p while event e was handled, no handler of p runs for an event popped
\* after e.
C3_NoHandlerAfterExitProduced ==
    \A x \in AllEvents :
        (x.name = "PluginExit" /\ x.by # 0 /\ x.hp = x.plugin)
        => \A k \in 1..Len(log) :
               log[k].plugin = x.plugin => log[k].at <= Pos(x.by)

\* C3 amended: once as many PluginExit events naming p and produced by
\* handlers of p have been popped as p has registrations, no handler of p
\* runs for an event popped later.
C3_NoHandlerAfterExitProcessed ==
    \A p \in Range(self_plugins) :
        OwnExitsBefore(p, Len(processed)) >= Count(self_plugins, p)
        => \A k \in 1..Len(log) :
               log[k].plugin = p
               => OwnExitsBefore(p, log[k].at) < Count(self_plugins, p)

\* C3 witness: a plugin registered once exited by its own PluginExit, an
\* event was popped and handled by another plugin afterwards, and the run
\* completed.
C3_Witness ==
    /\ pc = "done"
    /\ \E i \in 1..Len(processed) :
           /\ processed[i].ev.name = "PluginExit"
           /\ processed[i].ev.hp = processed[i].ev.plugin
           /\ Count(self_plugins, processed[i].ev.plugin) = 1
           /\ Exposes(processed[i].ev.plugin) \cap {"TestEvent", "EndGame"} # {}
           /\ \E k \in 1..Len(log) : log[k].at > i


\* C4: for every popped event, each registration of a plugin has its general
\* handlers invoked in the order Event, MessageEvent, GameEvent, TrackerEvent,
\* PlayerActionEvent, AbilityEvent, HotkeyEvent and the handler named after
\* the event last (while the handlers are being called, the invocations made
\* so far are the beginning of that list).
C4_PrecedenceOrder ==
    \A i \in 1..Len(processed) :
        LET e == processed[i].ev
            expected == ExpectedLog(self_plugins, e)
        IN  /\ IsPrefix(Seg(e.id), expected)
            /\ (i < Len(processed) \/ pc \in {"loop", "done"}) => Seg(e.id) = expected

\* C4 witness: one plugin was called for one event on two general handlers
\* and then on the handler named after the event.
C4_Witness ==
    \E k \in 3..Len(log) :
        /\ log[k].handler = "TargetAbilityEvent"
        /\ log[k - 1].handler = "AbilityEvent"
        /\ log[k - 2].handler = "PlayerActionEvent"
        /\ log[k - 1].plugin = log[k].plugin /\ log[k - 1].eid = log[k].eid
        /\ log[k - 2].plugin = log[k].plugin /\ log[k - 2].eid = log[k].eid

\* C5: of two handler invocations for the same event by different plugins,
\* the earlier one belongs to a plugin registered before the other: when every
\* registration of p1 precedes every registration of p2, all of p1's handlers
\* for an event run before any of p2's.
C5_PluginMajor ==
    \A b \in 1..Len(log) : \A a \in 1..(b - 1) :
        (log[a].eid = log[b].eid /\ log[a].plugin # log[b].plugin)
        => \E i, j \in 1..Len(self_plugins) :
               /\ i < j
               /\ self_plugins[i] = log[a].plugin
               /\ self_plugins[j] = log[b].plugin

\* C5 witness: the first plugin's handler named after the event ran before a
\* general handler of the second plugin.
C5_Witness ==
    \E a, b \in 1..Len(log) :
        /\ a < b /\ log[a].eid = log[b].eid
        /\ log[a].plugin # log[b].plugin
        /\ log[a].handler = "TargetAbilityEvent"
        /\ log[b].handler = "GameEvent"

\* C6: after a completed run every registered plugin for which no PluginExit
\* was popped has (0, {}) under its name in replay.plugins.
C6_DefaultOutcome ==
    pc = "done"
    => \A p \in Range(self_plugins) :
           ExitsBefore(p, Len(processed)) = 0
           => /\ PluginName(p) \in DOMAIN replay_plugins
              /\ replay_plugins[PluginName(p)] = <<0, NoDetails>>

\* C6 witness: a completed run in which one plugin exited and another did not.
C6_Witness ==
    /\ pc = "done"
    /\ \E p, q \in Range(self_plugins) :
           /\ ExitsBefore(p, Len(processed)) = 0
           /\ ExitsBefore(q, Len(processed)) > 0
           /\ replay_plugins[PluginName(q)] # <<0, NoDetails>>

\* C7: InitGame is the first event popped, and its handlers run before any
\* handler for an event of replay.events; EndGame is popped only after every
\* event that does not descend from EndGame itself; and on an empty replay a
\* plugin whose handleInitGame yields one TestEvent is called on
\* handleInitGame, handleTestEvent, handleEndGame, in that order.
C7_Bookends ==
    /\ processed # <<>> => processed[1].ev = InitGameEvent(1)
    /\ \A a \in 1..Len(log) :
           log[a].eid = 1
           => \A b \in 1..Len(log) :
                  log[b].eid \in 2..(Len(replay_events) + 1) => a < b
    /\ Pos(EndId) # 0
       => \A x \in AllEvents :
              (x.id # EndId /\ ~Descends(x, EndId)) => PoppedBefore(x.id, Pos(EndId))
    /\ \A p \in AllPlugins :
           (/\ pc = "done"
            /\ replay_events = <<>>
            /\ self_plugins = <<p>>
            /\ {"InitGame", "TestEvent", "EndGame"} \subseteq Exposes(p)
            /\ {[name |-> x.name, by |-> x.by] : x \in {y \in AllEvents : y.by # 0}}
                   = {[name |-> "TestEvent", by |-> 1]}
            /\ next_id = FirstYieldId(replay_events) + 1)
           => LET calls == SelectSeq(log, LAMBDA l :
                               l.handler \in {"InitGame", "TestEvent", "EndGame"})
              IN  [k \in 1..Len(calls) |-> calls[k].handler]
                      = <<"InitGame", "TestEvent", "EndGame">>

\* C7 witness: the completed run on an empty replay in which handleInitGame
\* yielded one TestEvent.
C7_Witness ==
    /\ pc = "done"
    /\ replay_events = <<>>
    /\ self_plugins = <<"P1">>
    /\ next_id = FirstYieldId(replay_events) + 1
    /\ \E x \in AllEvents : x.by = 1 /\ x.name = "TestEvent"
    /\ Pos(EndId) = 3

\* C8: no handler is invoked for a PluginExit event and no handler list is
\* cached for it; right after one is popped the cache is empty, its (code,
\* details) are recorded under the plugin's name, and one registration of the
\* plugin has left the active list for each PluginExit naming it.
C8_ExitNotDispatched ==
    /\ \A k \in 1..Len(log) :
           /\ processed[log[k].at].ev.id = log[k].eid
           /\ processed[log[k].at].ev.name # "PluginExit"
    /\ "PluginExit" \notin DOMAIN handlers
    /\ (pc = "loop" /\ event.name = "PluginExit")
       => /\ handlers = EmptyMap
          /\ PluginName(event.plugin) \in DOMAIN replay_plugins
          /\ replay_plugins[PluginName(event.plugin)] = <<event.code, event.details>>
          /\ Count(plugins, event.plugin)
                 = Count(self_plugins, event.plugin)
                       - ExitsBefore(event.plugin, Len(processed))

\* C8 witness: a PluginExit was popped while a plugin that exposes handleEvent
\* and handlePluginExit was active and stayed active.
C8_Witness ==
    /\ pc = "loop"
    /\ event.name = "PluginExit"
    /\ \E p \in Range(plugins) : {"Event", "PluginExit"} \subseteq Exposes(p)

\* C9: a popped PluginExit naming a plugin with no registration left in the
\* active list ends the run there: it is the last event popped, no handler
\* ran after it, and replay.plugins holds exactly what the earlier PluginExit
\* events recorded.
C9_ExitOfInactiveIsFatal ==
    \A i \in 1..Len(processed) :
        (/\ processed[i].ev.name = "PluginExit"
         /\ Count(self_plugins, processed[i].ev.plugin)
                <= ExitsBefore(processed[i].ev.plugin, i - 1))
        => /\ pc = "fatal"
           /\ i = Len(processed)
           /\ \A k \in 1..Len(log) : log[k].at < i
           /\ replay_plugins = ExitOutcomesUpTo(i - 1)

\* C9 witness: a second PluginExit for a plugin that had exited, with another
\* outcome, popped while events were still queued.
C9_Witness ==
    /\ pc = "fatal"
    /\ event.name = "PluginExit"
    /\ event_queue # <<>>
    /\ PluginName(event.plugin) \in DOMAIN replay_plugins
    /\ replay_plugins[PluginName(event.plugin)] # <<event.code, event.details>>

\* C10: while a run is in progress the registry is what it was when the run
\* started; and a run starts with the whole registry active (the plugins the
\* previous run removed included), an empty handler cache, an empty
\* replay.plugins and the queue InitGame, replay.events, EndGame.
C10_RunsIsolated ==
    /\ pc \in {"loop", "for"} => self_plugins = hist.registry
    /\ (pc = "loop" /\ processed = <<>>)
       => /\ plugins = self_plugins
          /\ \A p \in hist.removed : Count(plugins, p) = Count(hist.registry, p)
          /\ handlers = EmptyMap
          /\ replay_plugins = EmptyMap
          /\ [k \in 1..Len(event_queue) |-> event_queue[k].name]
                 = <<"InitGame">> \o replay_events \o <<"EndGame">>

\* C10 witness: in a second run a handler of a plugin that the first run
\* removed is being called for InitGame, and the first run had recorded
\* outcomes.
C10_Witness ==
    /\ runs = 2
    /\ pc = "for"
    /\ event.id = 1
    /\ event_handlers[hi][1] \in hist.removed
    /\ hist.outcomes # EmptyMap
    /\ replay_plugins = EmptyMap

\* C11: a plugin that exposes handleEvent has it invoked exactly once for
\* every event other than PluginExit that is popped while the plugin is in
\* the active list: InitGame, EndGame, the events of replay.events and the
\* events that handlers yield.
C11_HandleEventForEvery ==
    \A i \in 1..Len(processed) :
        (processed[i].ev.name # "PluginExit" /\ Handled(i))
        => \A p \in Range(hist.registry) :
               ("Event" \in Exposes(p) /\ ActiveAt(p, i) > 0)
               => Calls(p, "Event", i) = 1

\* C12: the handler list being called for the popped event is the list that
\* resolving the event against the current active list gives, whether it came
\* from the cache or not; every cached list is what resolving an event of
\* that name against the current active list gives; and right after a
\* PluginExit has been carried out the cache is empty.
C12_CacheCorrect ==
    /\ pc = "for" => event_handlers = GetEventHandlers(event, plugins)
    /\ \A n \in DOMAIN handlers :
           handlers[n] = GetEventHandlers(Ev(n, 0, 0, NoPlugin, {}), plugins)
    /\ (pc = "loop" /\ event.name = "PluginExit") => handlers = EmptyMap

\* C12 witness: handlers are being called for an event whose name was
\* dispatched before, a PluginExit was carried out in between, and the list
\* in use differs from the one called for the earlier event.
C12_Witness ==
    /\ pc = "for"
    /\ \E i, j \in 1..Len(processed) :
           /\ i < j /\ j < Len(processed)
           /\ processed[i].ev.name = event.name
           /\ processed[j].ev.name = "PluginExit"
           /\ Len(Seg(processed[i].ev.id)) > Len(event_handlers)
           /\ event_handlers # <<>>

C14_ExitWhenPopped ==
    \A x \in AllEvents :
        (x.name = "PluginExit" /\ x.by # 0)
        => LET p == x.plugin
               n == IF Pos(x.id) # 0 THEN Pos(x.id) - 1 ELSE Len(processed)
           IN  ExitsBefore(p, n) = 0
               => /\ (Pos(x.id) = 0 /\ pc \in {"loop", "for"})
                     => Count(plugins, p) = Count(self_plugins, p)
                  /\ \A i \in Pos(x.by)..n :
                         (processed[i].ev.name # "PluginExit" /\ Handled(i))
                         => \A h \in HandlerNames(p, processed[i].ev) :
                                Calls(p, h, i) = Count(self_plugins, p)
                  /\ (pc = "loop" /\ event = x /\ Count(self_plugins, p) > 0)
                     => Count(plugins, p) = Count(self_plugins, p) - 1

\* C14 witness: handleEvent of a plugin registered once produced a PluginExit
\* naming the plugin while a TargetAbilityEvent was handled; the plugin's
\* handleTargetAbilityEvent was still called for that event, and so was its
\* handleTestEvent for a TestEvent popped before the exit; the exit has now
\* been popped.
C14_Witness ==
    /\ pc = "loop"
    /\ event.name = "PluginExit"
    /\ event.hp = event.plugin
    /\ Count(self_plugins, event.plugin) = 1
    /\ event.plugin \notin Range(plugins)
    /\ "TargetAbilityEvent" \notin Generators(event.plugin)
    /\ \E b, i \in 1..Len(processed) :
           /\ processed[b].ev.id = event.by
           /\ processed[b].ev.name = "TargetAbilityEvent"
           /\ Calls(event.plugin, "TargetAbilityEvent", b) = 1
           /\ b < i /\ i < Len(processed)
           /\ processed[i].ev.name = "TestEvent"
           /\ Calls(event.plugin, "TestEvent", i) = 1

\* C15: once a handler of plugin p has produced a PluginExit naming p while
\* an event of replay.events was handled, no handler of p is called for a
\* later event of replay.events nor for EndGame, whatever else was produced
\* in that step (the events of replay.events have the serial numbers 2..n+1
\* in their order, EndGame has n+2).
C15_NoLaterInput ==
    \A x \in AllEvents :
        (/\ x.name = "PluginExit"
         /\ x.hp = x.plugin
         /\ x.by \in 2..(Len(replay_events) + 1))
        => \A k \in 1..Len(log) :
               log[k].plugin = x.plugin
               => ~(log[k].eid > x.by /\ log[k].eid <= EndId)

\* C16: when a PluginExit that a handler of plugin A produced and that names
\* another plugin B, active at that moment, is popped, one registration of B
\* and none of A leaves the active list and the event's (code, details) are
\* recorded under B's name; while no PluginExit naming A has been popped, A
\* has all its handlers called for every other event popped later; and after
\* a completed run A has (0, {}) under its name unless a PluginExit naming A
\* was popped.
C16_ExitOfOther ==
    \A i \in 1..Len(processed) :
        LET x == processed[i].ev
            A == x.hp
            B == x.plugin
        IN  (x.name = "PluginExit" /\ x.by # 0 /\ A # B /\ ActiveAt(B, i) > 0)
            => /\ (i = Len(processed) /\ pc = "loop")
                  => /\ Count(plugins, B) = ActiveAt(B, i) - 1
                     /\ Count(plugins, A) = ActiveAt(A, i)
                     /\ PluginName(B) \in DOMAIN replay_plugins
                     /\ replay_plugins[PluginName(B)] = <<x.code, x.details>>
               /\ \A j \in (i + 1)..Len(processed) :
                      (/\ processed[j].ev.name # "PluginExit"
                       /\ Handled(j)
                       /\ ExitsBefore(A, j - 1) = 0)
                      => \A h \in HandlerNames(A, processed[j].ev) :
                             Calls(A, h, j) = Count(hist.registry, A)
               /\ (pc = "done" /\ ExitsBefore(A, Len(processed)) = 0)
                  => /\ PluginName(A) \in DOMAIN replay_plugins
                     /\ replay_plugins[PluginName(A)] = <<0, NoDetails>>

\* C16 witness: a completed run in which a handler of A produced a
\* PluginExit naming B while both were active; B has the event's outcome,
\* which is not the default, A was called for an event popped later and has
\* the default outcome.
C16_Witness ==
    /\ pc = "done"
    /\ \E i \in 1..Len(processed) :
           LET x == processed[i].ev
           IN  /\ x.name = "PluginExit"
               /\ x.hp # x.plugin
               /\ ActiveAt(x.plugin, i) > 0
               /\ ExitsBefore(x.hp, Len(processed)) = 0
               /\ replay_plugins[PluginName(x.plugin)] = <<x.code, x.details>>
               /\ <<x.code, x.details>> # <<0, NoDetails>>
               /\ replay_plugins[PluginName(x.hp)] = <<0, NoDetails>>
               /\ \E k \in 1..Len(log) : log[k].at > i /\ log[k].plugin = x.hp

\* a handler raised: run was left at line 158
HandlerFault == pc = "fatal" /\ event.name # "PluginExit"

\* C17: when a handler raises, run ends there: the handlers after it in the
\* list of the current event are not called, replay.plugins holds exactly
\* what the PluginExit events popped before left in it (no default is
\* recorded), and nothing more is popped, called or recorded in that run.
C17_FaultAborts ==
    /\ [](HandlerFault
            => /\ processed # <<>> /\ processed[Len(processed)].ev = event
               /\ Len(Seg(event.id)) = hi
               /\ \A k \in 1..hi :
                      <<Seg(event.id)[k].plugin, Seg(event.id)[k].handler>>
                          = event_handlers[k]
               /\ log[Len(log)].eid = event.id
               /\ replay_plugins = ExitOutcomesUpTo(Len(processed)))
    /\ [][HandlerFault
            => \/ runs' = runs + 1
               \/ /\ processed' = processed
                  /\ log' = log
                  /\ event_queue' = event_queue
                  /\ replay_plugins' = replay_plugins
                  /\ pc' = pc]_vars

\* C17 witness: a handler raised while another handler for the same event
\* was still to be called, events were still queued, a PluginExit had been
\* carried out before and an active plugin has no outcome.
C17_Witness ==
    /\ HandlerFault
    /\ hi < Len(event_handlers)
    /\ event_queue # <<>>
    /\ replay_plugins # EmptyMap
    /\ \E p \in Range(plugins) : PluginName(p) \notin DOMAIN replay_plugins

\* the popped events that came from replay.events
PoppedInputs ==
    SelectSeq(processed, LAMBDA r : r.ev.by = 0 /\ r.ev.id \in 2..(Len(replay_events) + 1))

\* C18: in a completed run the events of replay.events are popped once each
\* and in their order, whatever is popped in between; and each is dispatched
\* once: every handler that a plugin active at that moment has for it is
\* called once per active registration, all in the step in which it was
\* popped.
C18_InputsOnceInOrder ==
    pc = "done"
    => /\ [k \in 1..Len(PoppedInputs) |-> PoppedInputs[k].ev.id]
              = [k \in 1..Len(replay_events) |-> k + 1]
       /\ [k \in 1..Len(PoppedInputs) |-> PoppedInputs[k].ev.name] = replay_events
       /\ \A i \in 1..Len(processed) :
              processed[i].ev.id \in 2..(Len(replay_events) + 1)
              => /\ \A k \in 1..Len(log) :
                        log[k].eid = processed[i].ev.id => log[k].at = i
                 /\ \A p \in Range(self_plugins) :
                        \A h \in HandlerNames(p, processed[i].ev) :
                            Calls(p, h, i) = ActiveAt(p, i)

\* C18 witness: a completed run over two events of replay.events, with an
\* event that a handler produced and a PluginExit popped between the two,
\* and handlers called for both.
C18_Witness ==
    /\ pc = "done"
    /\ Len(replay_events) = 2
    /\ \E i, j \in 1..Len(processed) :
           /\ j > i + 2
           /\ processed[i].ev.id = 2
           /\ processed[j].ev.id = 3
           /\ \E a, b \in (i + 1)..(j - 1) :
                  /\ processed[a].ev.name = "PluginExit"
                  /\ processed[b].ev.name = "TestEvent"
           /\ Calls(self_plugins[1], "Event", i) >= 1
           /\ \E k \in 1..Len(log) : log[k].at = j

\* C19: with the events that handlers produce bounded (MaxInject), a run that
\* has started ends: it completes unless it is left by an exception. A
\* completed run has an empty queue and an outcome for every registered
\* plugin, and when no handler produced anything it popped exactly n + 2
\* events, n being the number of events of replay.events.
C19_Terminates ==
    /\ (pc \in {"loop", "for"}) ~> (pc \in {"done", "fatal"})
    /\ [](pc = "done"
            => /\ event_queue = <<>>
               /\ \A p \in Range(self_plugins) :
                      PluginName(p) \in DOMAIN replay_plugins
               /\ Injected = 0 => Len(processed) = Len(replay_events) + 2)

\* C19 witness: a completed run in which handlers produced as many events as
\* the bound allows, one of them produced by the handlers of another, over a
\* replay with events.
C19_Witness ==
    /\ pc = "done"
    /\ event_queue = <<>>
    /\ Injected = MaxInject
    /\ replay_events # <<>>
    /\ \E i \in 1..Len(processed) : Cardinality(processed[i].ev.anc) >= 2

============================================================================
